---- MODULE Spec2Model ----
(***************************************************************************)
(* A model of ActionReplay (src/ActionReplay.py): the multitouch event     *)
(* decoder Model_EventParser, the line cursor of Controller                *)
(* (__file_read_line / __file_goto_line) and the playback scheduler        *)
(* Controller.__realtime_event_tick with the control commands of           *)
(* Controller.main_loop.                                                   *)
(*                                                                         *)
(* The specifications share the variables:                                 *)
(*   Spec          the controller: ticks, control commands, the wall clock *)
(*   SpecPause     ticks, pause and speed commands, the paused time kept   *)
(*   SpecSeek      ticks, skip_events and seeks on a touch log             *)
(*   SpecSlots     Spec on a log that uses two slots                       *)
(*   SpecDraw      ticks and seeks on a log that renders every diff case   *)
(*   SpecRender    ticks and the clock alone, no control command           *)
(*   SpecLoop      Controller.main_loop frame by frame                     *)
(*   SpecPlay      SpecLoop without the seek command                       *)
(*   SpecDecoder   the decoder alone, driven through its public methods    *)
(*   SpecMalformed the decoder fed lines it cannot parse                   *)
(*   SpecReady     the decoder's ready signal                              *)
(*   SpecCursor    the line cursor alone: readLine and gotoLine            *)
(***************************************************************************)
EXTENDS Integers, Sequences, FiniteSets, TLC

VARIABLES
    \* Model_EventParser
    activeSlot,                \* __activeSlot
    slots,                     \* __slots: slot id -> [tracking_id, x, y]
    slotsReady,                \* __slotsReady
    \* Controller: the file object and the line cursor
    file,                      \* the lines of the loaded log, in file order
    filePos,                   \* the file object's own position, in lines
    fileTotalLines,            \* __fileTotalLines
    fileNextLineNum,           \* __fileNextLineNum
    \* Controller: the scheduler
    previousSlots,             \* __previousSlots
    previousSynEventTmstmp,    \* __previousSynEventTmstmp
    waitingStartTmstmp,        \* __waitingStartTmstmp
    waitingTargetTmstmp,       \* __waitingTargetTmstmp
    waitingTimeDivisor,        \* __waitingTimeDivisor
    skipWaitingFlag,           \* __skipWaitingFlag
    skipWaitingTimeOffsetFlag, \* __skipWaitingTimeOffsetFlag
    paused,                    \* __paused
    finished,                  \* main_loop has returned (end of log)
    raised,                    \* the exception that ended the program, if any
    previousSlotsShared,       \* __previousSlots is the decoder's table object
    \* View_UI
    persistentTrails,          \* __persistent_trails: id -> [start, end]
    \* Controller.main_loop: its position and its locals
    pc,
    frameStartTmstmpMs,
    lastFrameEndTmstmpMs,
    lastNopTimeMs,
    timeBuffer,
    eventProcessingQuotaMs,    \* __eventProcessingQuotaMs
    \* the environment
    now,                       \* pygame.time.get_ticks()
    \* observation of the last operation: what was called, with which
    \* argument, what it returned and what it printed
    lastOp,
    \* observation across operations (see InitHist)
    hist

decoderVars == <<activeSlot, slots, slotsReady>>
cursorVars == <<file, filePos, fileTotalLines, fileNextLineNum>>
schedVars == <<previousSlots, previousSynEventTmstmp, waitingStartTmstmp,
               waitingTargetTmstmp, waitingTimeDivisor, skipWaitingFlag,
               skipWaitingTimeOffsetFlag, paused, finished>>
viewVars == <<persistentTrails>>
loopVars == <<pc, frameStartTmstmpMs, lastFrameEndTmstmpMs, lastNopTimeMs,
              timeBuffer, eventProcessingQuotaMs>>
vars == <<activeSlot, slots, slotsReady, file, filePos, fileTotalLines,
          fileNextLineNum, previousSlots, previousSynEventTmstmp,
          waitingStartTmstmp, waitingTargetTmstmp, waitingTimeDivisor,
          skipWaitingFlag, skipWaitingTimeOffsetFlag, paused, finished,
          raised, previousSlotsShared, persistentTrails, pc,
          frameStartTmstmpMs, lastFrameEndTmstmpMs, lastNopTimeMs, timeBuffer,
          eventProcessingQuotaMs, now, lastOp, hist>>

(***************************************************************************)
(* Values.  Python's None is modelled by -1: every integer the program     *)
(* stores in an optional field is the value of a hex numeral or a clock    *)
(* reading, hence >= 0.                                                    *)
(***************************************************************************)
None == -1

\* Event types and codes of the Linux input protocol, as the code spells them.
EV_SYN == 0
EV_KEY == 1
EV_ABS == 3
ABS_MT_SLOT == 47
ABS_MT_TRACKING_ID == 57
ABS_MT_POSITION_X == 53
ABS_MT_POSITION_Y == 54
BTN_TOUCH == 330

\* The release sentinel 0xffffffff.  TLC's integers are 32-bit signed, so the
\* model writes the sentinel as the largest value they hold; the code only
\* ever tests a value for equality with it.
TRACKING_ID_RELEASE == 2147483647

MS_PER_DAY == 86400000

(***************************************************************************)
(* Bounds of the model.                                                    *)
(***************************************************************************)
MaxSlot == 1        \* slot ids 0..MaxSlot are selected by the decoder's inputs
MaxTime == 3        \* the wall clock runs from 0 to MaxTime
MaxDivisor == 2     \* speed divisors 1..MaxDivisor
MaxSkip == 1        \* skip_events payloads 1..MaxSkip (and the button's 20)
MaxSeek == 1        \* gotoLine arguments -MaxSeek .. totalLines + MaxSeek

(***************************************************************************)
(* Log lines.  A line is the sequence of its whitespace-separated fields   *)
(* <<date, time, type, code, value>>: date in days, time in milliseconds   *)
(* within the day, the three hex fields by their values.                   *)
(***************************************************************************)
Line(t, ty, c, v) == <<0, t, ty, c, v>>

\* A field that strptime (date, time) or int(.., base=16) (the hex fields)
\* rejects is the value Unparseable; a line may have any number of fields.
Unparseable == -2

\* the exceptions the program can end with; NoError when none was raised
NoError == ""
AssertionError == "AssertionError"
ValueError == "ValueError"
IndexError == "IndexError"
ZeroDivisionError == "ZeroDivisionError"

\* (mutant) the field count is not asserted: the first five fields are used
ParseErrorNoAssert(line) ==
    IF Len(line) < 5 THEN IndexError
    ELSE IF \E i \in 1..5 : line[i] = Unparseable THEN ValueError
    ELSE NoError

\* parse_event_line, lines 40-49: what split, the assertion, strptime and the
\* three int(.., base=16) raise for the line, before any field of the decoder
\* is written
ParseError(line) ==
    IF Len(line) # 5 THEN AssertionError
    ELSE IF \E i \in 1..5 : line[i] = Unparseable THEN ValueError
    ELSE NoError

\* parse_event_line, lines 40-49: split, the timestamp, the three hex fields
ParseFields(line) ==
    [timestamp |-> line[1] * MS_PER_DAY + line[2],
     type      |-> line[3],
     code      |-> line[4],
     value     |-> line[5]]

(***************************************************************************)
(* Model_EventParser                                                       *)
(***************************************************************************)
EmptySlot == [tracking_id |-> None, x |-> None, y |-> None]

\* (mutant) the table is replaced by one holding the new slot alone
InitSlotAlone(sl, slotID) == [s \in {slotID} |-> EmptySlot]

\* __init_slot: self.__slots[slotID] = {all None}
InitSlot(sl, slotID) ==
    [s \in (DOMAIN sl) \cup {slotID} |-> IF s = slotID THEN EmptySlot ELSE sl[s]]

\* __safe_get_slot: the table after the call (the slot is created if missing)
SafeGetSlot(sl, slotID) ==
    IF slotID \notin DOMAIN sl THEN InitSlot(sl, slotID) ELSE sl

\* __select_slot
SelectSlot(slotID) == slotID

\* (mutant) a release removes the slot from the table
TrackingIdRemovesSlot(sl, a, v) ==
    IF v = TRACKING_ID_RELEASE
    THEN [s \in (DOMAIN sl) \ {a} |-> sl[s]]
    ELSE [s \in (DOMAIN sl) \cup {a} |->
            IF s = a THEN [tracking_id |-> v, x |-> None, y |-> None] ELSE sl[s]]

\* (mutant) the tracking id is replaced but the coordinates are kept
TrackingIdKeepsCoords(sl, a, v) ==
    LET got == SafeGetSlot(sl, a) IN
    IF v # got[a].tracking_id
    THEN [got EXCEPT ![a].tracking_id = IF v # TRACKING_ID_RELEASE THEN v ELSE None]
    ELSE got

\* case ABS_MT_TRACKING_ID, lines 57-61: the table after the record
TrackingId(sl, a, v) ==
    LET got == SafeGetSlot(sl, a) IN
    IF v # got[a].tracking_id
    THEN LET fresh == InitSlot(got, a) IN
         IF v # TRACKING_ID_RELEASE
         THEN [SafeGetSlot(fresh, a) EXCEPT ![a].tracking_id = v]
         ELSE fresh
    ELSE got

\* (mutant) the x coordinate is written to slot 0 instead of the active slot
PositionXSlotZero(sl, a, v) == [SafeGetSlot(sl, 0) EXCEPT ![0].x = v]

\* case ABS_MT_POSITION_X, lines 62-64
PositionX(sl, a, v) == [SafeGetSlot(sl, a) EXCEPT ![a].x = v]

\* case ABS_MT_POSITION_Y, lines 65-67
PositionY(sl, a, v) == [SafeGetSlot(sl, a) EXCEPT ![a].y = v]

\* __ready_slots: the new ready signal and what is printed
ReadySlots(ready, timestamp) ==
    [slotsReady |-> timestamp,
     printed    |-> IF ready # None THEN {"unread_syn"} ELSE {}]

\* line 73: the condition under which an event of another type is reported
UnhandledReported(ev) == ev.type # EV_KEY /\ ev.code # BTN_TOUCH

\* parse_event_line, lines 51-74: the decoder after the event, and what was
\* printed
HandleEvent(d, ev) ==
    IF ev.type = EV_ABS THEN
        CASE ev.code = ABS_MT_SLOT ->
               [d EXCEPT !.activeSlot = SelectSlot(ev.value), !.printed = {}]
          [] ev.code = ABS_MT_TRACKING_ID ->
               [d EXCEPT !.slots = TrackingId(d.slots, d.activeSlot, ev.value),
                         !.printed = {}]
          [] ev.code = ABS_MT_POSITION_X ->
               [d EXCEPT !.slots = PositionX(d.slots, d.activeSlot, ev.value),
                         !.printed = {}]
          [] ev.code = ABS_MT_POSITION_Y ->
               [d EXCEPT !.slots = PositionY(d.slots, d.activeSlot, ev.value),
                         !.printed = {}]
          [] OTHER -> [d EXCEPT !.printed = {"unhandled_abs"}]
    ELSE IF ev.type = EV_SYN THEN
        LET r == ReadySlots(d.slotsReady, ev.timestamp) IN
        [d EXCEPT !.slotsReady = r.slotsReady, !.printed = r.printed]
    ELSE
        [d EXCEPT !.printed = IF UnhandledReported(ev) THEN {"unhandled"} ELSE {}]

\* parse_event_line: the decoder after the line, what was printed and what
\* was raised
ParseEventLine(d, line) ==
    IF ParseError(line) # NoError
    THEN [d EXCEPT !.printed = {}, !.raised = ParseError(line)]
    ELSE HandleEvent(d, ParseFields(line))

\* (mutant) the ready signal is cleared and never returned
GetSlotsReadyNever(ready) == [ret |-> None, slotsReady |-> None]

\* (mutant) the ready signal is returned but not cleared
GetSlotsReadyKeeps(ready) == [ret |-> ready, slotsReady |-> ready]

\* get_slots_ready: the value returned and the ready signal afterwards
GetSlotsReady(ready) == [ret |-> ready, slotsReady |-> None]

\* the decoder's fields as one value
Decoder == [activeSlot |-> activeSlot, slots |-> slots,
            slotsReady |-> slotsReady, printed |-> {}, raised |-> NoError]

(***************************************************************************)
(* The line cursor of Controller.  A cursor value is the pair of the file  *)
(* object's position and __fileNextLineNum; f is the file's lines.         *)
(***************************************************************************)
\* load_file / __file_get_total_lines: readline until it returns nothing
FileGetTotalLines(f) == Len(f)

\* __file_read_line: the cursor after the call and the line returned
FileReadLine(f, c) ==
    IF c.filePos < Len(f)
    THEN [filePos |-> c.filePos + 1, fileNextLineNum |-> c.fileNextLineNum + 1,
          eof |-> FALSE, line |-> f[c.filePos + 1]]
    ELSE [filePos |-> c.filePos, fileNextLineNum |-> c.fileNextLineNum,
          eof |-> TRUE, line |-> <<>>]

\* (mutant) the lines are read from the file but not counted
FileReadLinesUncounted(f, c, n) ==
    [filePos |-> IF c.filePos + n <= Len(f) THEN c.filePos + n ELSE Len(f),
     fileNextLineNum |-> c.fileNextLineNum]

\* for _ in range(n): self.__file_read_line()
RECURSIVE FileReadLines(_, _, _)
FileReadLines(f, c, n) ==
    IF n <= 0 THEN [filePos |-> c.filePos, fileNextLineNum |-> c.fileNextLineNum]
    ELSE LET r == FileReadLine(f, c) IN
         FileReadLines(f, [filePos |-> r.filePos,
                           fileNextLineNum |-> r.fileNextLineNum], n - 1)

Max(a, b) == IF a >= b THEN a ELSE b
Min(a, b) == IF a <= b THEN a ELSE b

\* __file_goto_line, lines 515-516
ClampLine(lineIndex, total) == Min(Max(lineIndex, 0), total)

\* (mutant) the file is rewound but __fileNextLineNum is not reset
GotoBackwardNoReset(f, c, lineIndex) ==
    FileReadLines(f, [filePos |-> 0, fileNextLineNum |-> c.fileNextLineNum], lineIndex)

\* __file_goto_line, lines 522-526: rewind and read forward again
GotoBackward(f, c, lineIndex) ==
    FileReadLines(f, [filePos |-> 0, fileNextLineNum |-> 0], lineIndex)

\* __file_goto_line
FileGotoLine(f, total, c, lineIndexArg) ==
    LET lineIndex == ClampLine(lineIndexArg, total) IN
    IF lineIndex = c.fileNextLineNum
    THEN [filePos |-> c.filePos, fileNextLineNum |-> c.fileNextLineNum]
    ELSE IF lineIndex > c.fileNextLineNum
    THEN FileReadLines(f, c, lineIndex - c.fileNextLineNum)
    ELSE GotoBackward(f, c, lineIndex)

Cursor == [filePos |-> filePos, fileNextLineNum |-> fileNextLineNum]

(***************************************************************************)
(* Arithmetic of the scheduler.                                            *)
(***************************************************************************)
\* Python's round(a / b) for b > 0: nearest integer, ties to the even one
RoundDiv(a, b) ==
    LET q == a \div b
        r == a % b
    IN  IF 2 * r < b THEN q
        ELSE IF 2 * r > b THEN q + 1
        ELSE IF q % 2 = 0 THEN q ELSE q + 1

\* (mutant) the skip flag collapses the wait but keeps the last commit
SkipCollapseKeepsPrev(flag, currentMs, target, start, previousSyn) ==
    IF flag
    THEN [target |-> currentMs, start |-> currentMs, previousSyn |-> previousSyn]
    ELSE [target |-> target, start |-> start, previousSyn |-> previousSyn]

\* lines 369-373: the skip flag collapses the wait and forgets the last commit
SkipCollapse(flag, currentMs, target, start, previousSyn) ==
    IF flag
    THEN [target |-> currentMs, start |-> currentMs, previousSyn |-> None]
    ELSE [target |-> target, start |-> start, previousSyn |-> previousSyn]

\* (mutant) the deadline is taken to be reached one millisecond early
StillWaitingOffByOne(target, currentMs) == target # None /\ currentMs + 1 < target

\* (mutant) the waiting branch is taken at the deadline too
StillWaitingAtDeadline(target, currentMs) == target # None /\ currentMs <= target

\* lines 375-376: a wait is pending and its deadline is not reached
StillWaiting(target, currentMs) == target # None /\ currentMs < target

\* (mutant) the time-offset flag is cleared but the offset is kept
WaitingTimeOffsetKept(flag, offset) == offset

\* lines 387-388: the time-offset flag forces waitingTimeOffset to 0
WaitingTimeOffset(flag, offset) == IF flag THEN 0 ELSE offset

\* (mutant) the recorded delta is not divided by the speed divisor
WaitTargetUnscaled(synEventTimestamp, previousSyn, divisor, currentMs, waitingTimeOffset) ==
    (synEventTimestamp - previousSyn) + currentMs + waitingTimeOffset

\* line 402: the deadline of the wait window a commit opens
WaitTarget(synEventTimestamp, previousSyn, divisor, currentMs, waitingTimeOffset) ==
    RoundDiv(synEventTimestamp - previousSyn, divisor) + currentMs + waitingTimeOffset

(***************************************************************************)
(* The snapshot diff of Controller (__safe_get_slot, __draw_slots) and the *)
(* persistent trails of View_UI.  A position is <<x, y>>, an absent start  *)
(* position is <<>>.  The fading list View_UI.__trails that add_trail      *)
(* appends to is not part of the state.                                    *)
(***************************************************************************)
TrailSurfaceW == 450        \* View_UI(450, 1080, ..): windowWidth
TrailSurfaceH == 1000       \* windowHeight less the two bars and the toolbar
EventXRes == 17280          \* Controller(.., 1080 * 16, 2400 * 16)
EventYRes == 38400

\* __scale_coords
ScaleCoords(x, y) ==
    << (x * (TrailSurfaceW - 1)) \div (EventXRes - 1),
       (y * (TrailSurfaceH - 1)) \div (EventYRes - 1) >>

\* (mutant) a slot with a tracking id counts, whatever its coordinates
ControllerSafeGetSlotAnyCoords(sl, slotID) ==
    IF slotID \notin DOMAIN sl THEN <<>>
    ELSE IF sl[slotID].tracking_id = None THEN <<>>
    ELSE <<sl[slotID]>>

\* Controller.__safe_get_slot: <<slot>> when the slot is returned, <<>> for None
ControllerSafeGetSlot(sl, slotID) ==
    IF slotID \notin DOMAIN sl THEN <<>>
    ELSE IF sl[slotID].tracking_id = None THEN <<>>
    ELSE IF sl[slotID].x = None \/ sl[slotID].y = None THEN <<>>
    ELSE <<sl[slotID]>>

\* Controller.__safe_get_slot, line 342: the bogus-event warning is printed
BogusWarned(sl, slotID) ==
    /\ slotID \in DOMAIN sl
    /\ sl[slotID].tracking_id # None
    /\ (sl[slotID].x = None \/ sl[slotID].y = None)

\* the calls __draw_slots makes on View_UI
AddTrail(start, end, timestampMs) ==
    [op |-> "add_trail", id |-> None, start |-> start, end |-> end,
     timestamp |-> timestampMs]
AddPersistentTrail(start, end, id) ==
    [op |-> "add_persistent_trail", id |-> id, start |-> start, end |-> end,
     timestamp |-> None]
FadePersistentTrail(id, timestampMs) ==
    [op |-> "fade_persistent_trail", id |-> id, start |-> <<>>, end |-> <<>>,
     timestamp |-> timestampMs]

\* __draw_slots, line 347
DrawAssert(sl, prev) == Cardinality(DOMAIN prev) <= Cardinality(DOMAIN sl)

\* __draw_slots, lines 349-362: the calls made for one slot id, in order
DrawSlot(sl, prev, slotID, currentTimestampMs) ==
    LET slot == ControllerSafeGetSlot(sl, slotID)
        previousSlot == ControllerSafeGetSlot(prev, slotID)
    IN  IF slot = <<>>
        THEN IF previousSlot # <<>>
             THEN <<FadePersistentTrail(slotID, currentTimestampMs)>>
             ELSE <<>>
        ELSE (IF previousSlot # <<>>
              THEN IF previousSlot[1].tracking_id = slot[1].tracking_id
                   THEN <<AddTrail(ScaleCoords(previousSlot[1].x, previousSlot[1].y),
                                   ScaleCoords(slot[1].x, slot[1].y),
                                   currentTimestampMs)>>
                   ELSE <<FadePersistentTrail(slotID, currentTimestampMs)>>
              ELSE <<>>)
             \o <<AddPersistentTrail(<<>>, ScaleCoords(slot[1].x, slot[1].y), slotID)>>

\* __draw_slots, line 348: the calls made, per slot id of the current table
DrawSlots(sl, prev, currentTimestampMs) ==
    [slotID \in DOMAIN sl |-> DrawSlot(sl, prev, slotID, currentTimestampMs)]

\* View_UI.add_persistent_trail
ViewAddPersistentTrail(pt, start, end, id) ==
    [k \in (DOMAIN pt) \cup {id} |->
        IF k = id THEN [start |-> start, end |-> end] ELSE pt[k]]

\* View_UI.fade_persistent_trail: one id, or all of them when id is None
ViewFadePersistentTrail(pt, id) ==
    IF id # None
    THEN IF id \notin DOMAIN pt THEN pt
         ELSE [k \in (DOMAIN pt) \ {id} |-> pt[k]]
    ELSE <<>>

\* the persistent trails after one call on View_UI
ViewCall(pt, call) ==
    CASE call.op = "add_persistent_trail" ->
           ViewAddPersistentTrail(pt, call.start, call.end, call.id)
      [] call.op = "fade_persistent_trail" ->
           ViewFadePersistentTrail(pt, call.id)
      [] OTHER -> pt

RECURSIVE ViewCalls(_, _)
ViewCalls(pt, calls) ==
    IF calls = <<>> THEN pt
    ELSE ViewCalls(ViewCall(pt, Head(calls)), Tail(calls))

\* the persistent trails after __draw_slots.  The calls made for one slot id
\* write that id's trail alone, so the order in which the dict yields the
\* slot ids does not show in the result; they are taken in increasing order.
RECURSIVE ViewAfterSlots(_, _, _)
ViewAfterSlots(pt, calls, ids) ==
    IF ids = {} THEN pt
    ELSE LET slotID == CHOOSE s \in ids : \A t \in ids : s <= t IN
         ViewAfterSlots(ViewCalls(pt, calls[slotID]), calls, ids \ {slotID})

ViewAfterDraw(pt, sl, prev, currentTimestampMs) ==
    ViewAfterSlots(pt, DrawSlots(sl, prev, currentTimestampMs), DOMAIN sl)

\* one call of __draw_slots: its arguments, __previousSlots as it was, and
\* the calls it made on View_UI
DrawCall(sl, prev, currentTimestampMs) ==
    [slots |-> sl, previous |-> prev, timestamp |-> currentTimestampMs,
     calls |-> DrawSlots(sl, prev, currentTimestampMs)]

\* (mutant) self.__previousSlots = slots: the decoder's table object itself
AssignShared == TRUE

\* lines 385 and 406, copy.deepcopy(slots): the object bound to
\* __previousSlots is a new one, not the decoder's table
DeepCopyShared == FALSE

\* what is read through __previousSlots once the decoder's table is `table`:
\* the table itself when the two names are bound to one object
SeenThrough(shared, own, table) == IF shared THEN table ELSE own

(***************************************************************************)
(* The logs the controller is loaded with.  Times are milliseconds within  *)
(* one day, non-decreasing as in a recorded log.                           *)
(***************************************************************************)
Syn(t) == Line(t, EV_SYN, 0, 0)
Abs(t, c, v) == Line(t, EV_ABS, c, v)

\* commits in a row, then a move and its commit
LogPace ==
    << Syn(10),
       Syn(11),
       Syn(13),
       Abs(14, ABS_MT_POSITION_X, 3),
       Syn(14) >>

\* a finger down in slot 0, a key event, a finger down in slot 1, an event the
\* decoder does not handle
LogTouch ==
    << Abs(20, ABS_MT_TRACKING_ID, 1),
       Abs(20, ABS_MT_POSITION_X, 1),
       Abs(20, ABS_MT_POSITION_Y, 2),
       Syn(20),
       Syn(23) >>

Logs == { <<>>, LogPace, LogTouch }

\* a finger down in slot 0 and its commit, then slot 1 selected and released
\* (which creates it), and the commit of that
LogSlots ==
    << Abs(30, ABS_MT_TRACKING_ID, 1),
       Syn(30),
       Abs(31, ABS_MT_SLOT, 1),
       Abs(31, ABS_MT_TRACKING_ID, TRACKING_ID_RELEASE),
       Syn(31) >>

\* a finger down in slot 0; it moves across the screen while slot 1 is given
\* a tracking id and no position; a finger with another tracking id takes
\* slot 0, and is released.  Every commit carries the same time, so that no
\* wait outlasts the tick that follows it.
LogDraw ==
    << Abs(40, ABS_MT_TRACKING_ID, 1),
       Abs(40, ABS_MT_POSITION_X, 100),
       Abs(40, ABS_MT_POSITION_Y, 200),
       Syn(40),
       Abs(40, ABS_MT_POSITION_X, 17279),
       Abs(40, ABS_MT_SLOT, 1),
       Abs(40, ABS_MT_TRACKING_ID, 3),
       Syn(40),
       Abs(40, ABS_MT_SLOT, 0),
       Abs(40, ABS_MT_TRACKING_ID, 2),
       Abs(40, ABS_MT_POSITION_X, 100),
       Abs(40, ABS_MT_POSITION_Y, 200),
       Syn(40),
       Abs(40, ABS_MT_TRACKING_ID, TRACKING_ID_RELEASE),
       Syn(40) >>

(***************************************************************************)
(* Observations.                                                           *)
(***************************************************************************)
\* what a tick did beyond its return value; the fields keep these values
\* for every other operation
NoTick ==
    [offset    |-> 0,       \* waitingTimeOffset when the line was read
     raw       |-> 0,       \* waitingTimeOffset as line 380 set it
     commit    |-> FALSE,   \* get_slots_ready returned a timestamp
     owed      |-> <<>>,    \* hist.owed when a wait window was entered
     num       |-> 0,       \* the wait fraction returned: numerator,
     den       |-> 0,       \* denominator
     draws     |-> <<>>]    \* the calls of __draw_slots made, in order

Op(op, arg, ret, printed, tick) ==
    [op |-> op, arg |-> arg, ret |-> ret, printed |-> printed, tick |-> tick]

\* commits:  commit markers decoded since the last collapse of a wait by the
\*           skip flag (or since the start), counted up to 2
\* owed:     <<o>> when a wait window ended with overshoot o, the time-offset
\*           flag clear, and neither a wait window was entered nor a control
\*           command handled since; <<>> otherwise
\* pending:  the timestamps of the commit markers decoded since
\*           get_slots_ready last returned, the last two of them at most
\*           (kept by SpecReady only)
\* frozen:   the milliseconds the clock advanced while playback was paused
\*           and the wait window now pending was pending (kept by SpecPause
\*           only)
InitHist == [commits |-> 0, owed |-> <<>>, pending |-> <<>>, frozen |-> 0]

(***************************************************************************)
(* Initial state: both objects constructed and load_file called.           *)
(***************************************************************************)
EventProcessingQuotaMs == 8     \* line 320

InitDecoder ==
    /\ activeSlot = 0
    /\ slots = <<>>
    /\ slotsReady = None

\* main_loop, lines 425-427 and 320, before the first frame
InitMainLoop ==
    /\ pc = "frame"
    /\ frameStartTmstmpMs = 0
    /\ lastFrameEndTmstmpMs = 0
    /\ lastNopTimeMs = 0
    /\ timeBuffer = 0
    /\ eventProcessingQuotaMs = EventProcessingQuotaMs

InitController ==
    /\ previousSlots = <<>>
    /\ previousSynEventTmstmp = None
    /\ waitingStartTmstmp = 0
    /\ waitingTargetTmstmp = None
    /\ waitingTimeDivisor = 1
    /\ skipWaitingFlag = FALSE
    /\ skipWaitingTimeOffsetFlag = FALSE
    /\ paused = FALSE
    /\ finished = FALSE
    /\ raised = NoError
    /\ previousSlotsShared = FALSE
    /\ persistentTrails = <<>>
    /\ InitMainLoop

LoadFile(f) ==
    /\ file = f
    /\ filePos = 0
    /\ fileTotalLines = FileGetTotalLines(f)
    /\ fileNextLineNum = 0

Init ==
    /\ InitDecoder
    /\ InitController
    /\ \E f \in Logs : LoadFile(f)
    /\ now = 0
    /\ lastOp = Op("init", None, None, {}, NoTick)
    /\ hist = InitHist

(***************************************************************************)
(* Controller.__realtime_event_tick, called by main_loop while not paused  *)
(* (line 435).  main_loop calls it any number of times per frame, zero     *)
(* included (lines 439-440), and handles the control commands between two  *)
(* batches, so ticks and commands interleave freely (SpecLoop has the      *)
(* frames).  An exception raised in the tick is caught nowhere: it ends    *)
(* the program.                                                            *)
(***************************************************************************)
\* the program is running: main_loop has neither returned nor raised
Running == ~finished /\ raised = NoError

Tick ==
    /\ Running
    /\ ~paused
    /\ LET currentMs == now
           collapsed == skipWaitingFlag
           sc == SkipCollapse(skipWaitingFlag, currentMs, waitingTargetTmstmp,
                              waitingStartTmstmp, previousSynEventTmstmp)
           target1 == sc.target
           start1  == sc.start
           prev1   == sc.previousSyn
           commits1 == IF collapsed THEN 0 ELSE hist.commits
           \* the state after lines 369-373, the tick going no further
           s0 == [activeSlot |-> activeSlot, slots |-> slots,
                  slotsReady |-> slotsReady,
                  filePos |-> filePos, fileNextLineNum |-> fileNextLineNum,
                  previousSlots |-> previousSlots,
                  previousSlotsShared |-> previousSlotsShared,
                  persistentTrails |-> persistentTrails,
                  previousSyn |-> prev1, start |-> start1, target |-> target1,
                  offsetFlag |-> skipWaitingTimeOffsetFlag,
                  finished |-> FALSE, raised |-> NoError,
                  commits |-> commits1, owed |-> hist.owed,
                  lastOp |-> Op("tick", None, "wait", {},
                                [NoTick EXCEPT !.num = currentMs - start1,
                                               !.den = target1 - start1])]
           expired == target1 # None
           offset0 == IF expired THEN target1 - currentMs ELSE 0
           \* lines 380-385: the wait is over, __draw_slots, then the deep copy
           s1 == IF expired
                 THEN [s0 EXCEPT !.target = None,
                                 !.persistentTrails =
                                     ViewAfterDraw(persistentTrails, slots,
                                                   previousSlots, currentMs),
                                 !.previousSlots = slots,
                                 !.previousSlotsShared = DeepCopyShared]
                 ELSE s0
           zeroed  == skipWaitingTimeOffsetFlag
           waitingTimeOffset == WaitingTimeOffset(zeroed, offset0)
           owed1   == IF zeroed THEN <<>>
                      ELSE IF expired THEN <<offset0>> ELSE hist.owed
           draw0 == IF expired
                    THEN <<DrawCall(slots, previousSlots, currentMs)>>
                    ELSE <<>>
           info == [NoTick EXCEPT !.offset = waitingTimeOffset, !.raw = offset0,
                                  !.draws = draw0]
           \* lines 387-392: the time-offset flag, then __file_read_line
           rd == FileReadLine(file, Cursor)
           s2 == [s1 EXCEPT !.offsetFlag = FALSE, !.owed = owed1,
                            !.filePos = rd.filePos,
                            !.fileNextLineNum = rd.fileNextLineNum]
           \* line 396: parse_event_line
           d == ParseEventLine(Decoder, rd.line)
           prevSeen == SeenThrough(s2.previousSlotsShared, s2.previousSlots, d.slots)
           s3 == [s2 EXCEPT !.activeSlot = d.activeSlot, !.slots = d.slots,
                            !.slotsReady = d.slotsReady,
                            !.previousSlots = prevSeen]
           \* line 398: get_slots_ready
           g == GetSlotsReady(d.slotsReady)
           synEventTimestamp == g.ret
           s4 == [s3 EXCEPT !.slotsReady = g.slotsReady]
           result ==
             IF StillWaiting(target1, currentMs)
             THEN \* lines 376-378: still waiting
                  s0
             ELSE IF expired /\ ~DrawAssert(slots, previousSlots)
             THEN \* line 347 raises; line 381 has cleared the wait
                  [s0 EXCEPT !.target = None, !.raised = AssertionError,
                             !.lastOp = Op("tick", None, "raised", {}, NoTick)]
             ELSE IF rd.eof
             THEN \* line 394: return None; main_loop breaks and returns
                  [s2 EXCEPT !.finished = TRUE,
                             !.lastOp = Op("tick", None, "eof", {}, info)]
             ELSE IF d.raised # NoError
             THEN \* lines 41-49 raise before the decoder is written
                  [s2 EXCEPT !.raised = d.raised,
                             !.lastOp = Op("tick", None, "raised", {}, info)]
             ELSE IF synEventTimestamp = None
             THEN [s4 EXCEPT !.lastOp = Op("tick", None, "line", d.printed, info)]
             ELSE IF prev1 # None
             THEN \* lines 401-402: a wait window is entered
                  [s4 EXCEPT !.start = currentMs,
                             !.target = WaitTarget(synEventTimestamp, prev1,
                                                   waitingTimeDivisor, currentMs,
                                                   waitingTimeOffset),
                             !.previousSyn = synEventTimestamp,
                             !.commits = Min(commits1 + 1, 2),
                             !.owed = <<>>,
                             !.lastOp = Op("tick", None, "line", d.printed,
                                           [info EXCEPT !.commit = TRUE,
                                                        !.owed = owed1])]
             ELSE IF ~DrawAssert(d.slots, prevSeen)
             THEN \* line 347 raises in the draw of line 405
                  [s4 EXCEPT !.raised = AssertionError,
                             !.lastOp = Op("tick", None, "raised", {}, info)]
             ELSE \* lines 404-406: __draw_slots, then the deep copy
                  [s4 EXCEPT !.persistentTrails =
                                 ViewAfterDraw(s2.persistentTrails, d.slots,
                                               prevSeen, currentMs),
                             !.previousSlots = d.slots,
                             !.previousSlotsShared = DeepCopyShared,
                             !.previousSyn = synEventTimestamp,
                             !.commits = Min(commits1 + 1, 2),
                             !.lastOp = Op("tick", None, "line", d.printed,
                                           [info EXCEPT
                                              !.commit = TRUE,
                                              !.draws = draw0 \o
                                                 <<DrawCall(d.slots, prevSeen,
                                                            currentMs)>>])]
       IN
       \E r \in {result} :
       /\ skipWaitingFlag' = FALSE
       /\ activeSlot' = r.activeSlot
       /\ slots' = r.slots
       /\ slotsReady' = r.slotsReady
       /\ filePos' = r.filePos
       /\ fileNextLineNum' = r.fileNextLineNum
       /\ previousSlots' = r.previousSlots
       /\ previousSlotsShared' = r.previousSlotsShared
       /\ persistentTrails' = r.persistentTrails
       /\ previousSynEventTmstmp' = r.previousSyn
       /\ waitingStartTmstmp' = r.start
       /\ waitingTargetTmstmp' = r.target
       /\ skipWaitingTimeOffsetFlag' = r.offsetFlag
       /\ finished' = r.finished
       /\ raised' = r.raised
       /\ hist' = [hist EXCEPT !.commits = r.commits, !.owed = r.owed,
                               !.frozen = IF r.lastOp.ret = "wait" THEN @ ELSE 0]
       /\ lastOp' = r.lastOp
       /\ UNCHANGED <<file, fileTotalLines, waitingTimeDivisor, paused, now,
                      loopVars>>

(***************************************************************************)
(* The control commands, handled in main_loop (lines 455-481).  Payloads   *)
(* are drawn from small sets: the handlers take whatever the click event   *)
(* carries.                                                                *)
(***************************************************************************)
ProgressBarWidth == 450     \* View_UI(450, ...): __windowSize[0]
FFCount == 20               \* the payload of the 'FF 20' button

SkipCounts == (1..MaxSkip) \cup {FFCount}

\* __main_progress_bar_callback and line 475: the click at x of the bar gives
\* round(totalLines * (x / (width - 1)))
SeekLineIndex(total, x) == RoundDiv(total * x, ProgressBarWidth - 1)

\* the line indexes a click on the progress bar can ask for, per log length
SeekIndexes ==
    [n \in {Len(f) : f \in Logs \cup {LogSlots}} |->
        {SeekLineIndex(n, x) : x \in 0..(ProgressBarWidth - 1)}]

\* what every handler leaves alone
CmdFrame ==
    /\ hist' = [hist EXCEPT !.owed = <<>>]
    /\ UNCHANGED <<raised, previousSlotsShared, loopVars>>

\* the observation of a command: the click event and its payload, or, where
\* the commands are not told apart, that a command was handled
Cmd(op, arg) == lastOp' = Op(op, arg, None, {}, NoTick)
SomeCmd == lastOp' = Op("cmd", None, None, {}, NoTick)

\* case 'paused'
CmdPaused(flag) ==
    /\ Running
    /\ paused' = flag
    /\ skipWaitingTimeOffsetFlag' = TRUE
    /\ CmdFrame
    /\ UNCHANGED <<decoderVars, cursorVars, previousSlots, previousSynEventTmstmp,
                   waitingStartTmstmp, waitingTargetTmstmp, waitingTimeDivisor,
                   skipWaitingFlag, finished, now, viewVars>>

\* case 'skip_waiting'
CmdSkipWaiting ==
    /\ Running
    /\ skipWaitingFlag' = TRUE
    /\ CmdFrame
    /\ UNCHANGED <<decoderVars, cursorVars, previousSlots, previousSynEventTmstmp,
                   waitingStartTmstmp, waitingTargetTmstmp, waitingTimeDivisor,
                   skipWaitingTimeOffsetFlag, paused, finished, now, viewVars>>

\* case 'skip_events'
CmdSkipEvents(n) ==
    /\ Running
    /\ LET c == FileReadLines(file, Cursor, n) IN
       /\ filePos' = c.filePos
       /\ fileNextLineNum' = c.fileNextLineNum
    /\ skipWaitingFlag' = TRUE
    /\ CmdFrame
    /\ UNCHANGED <<decoderVars, file, fileTotalLines, previousSlots,
                   previousSynEventTmstmp, waitingStartTmstmp, waitingTargetTmstmp,
                   waitingTimeDivisor, skipWaitingTimeOffsetFlag, paused, finished,
                   now, viewVars>>

\* case 'set_playback_speed_multiplier'
CmdSetSpeed(d) ==
    /\ Running
    /\ waitingTimeDivisor' = d
    /\ CmdFrame
    /\ UNCHANGED <<decoderVars, cursorVars, previousSlots, previousSynEventTmstmp,
                   waitingStartTmstmp, waitingTargetTmstmp, skipWaitingFlag,
                   skipWaitingTimeOffsetFlag, paused, finished, now, viewVars>>

\* case 'set_file_position': lines 475-479
CmdSetFilePosition(lineIndex) ==
    /\ Running
    /\ LET c == FileGotoLine(file, fileTotalLines, Cursor, lineIndex) IN
       /\ filePos' = c.filePos
       /\ fileNextLineNum' = c.fileNextLineNum
    /\ persistentTrails' = ViewFadePersistentTrail(persistentTrails, None)
    /\ skipWaitingFlag' = TRUE
    /\ CmdFrame
    /\ UNCHANGED <<decoderVars, file, fileTotalLines, previousSlots,
                   previousSynEventTmstmp, waitingStartTmstmp, waitingTargetTmstmp,
                   waitingTimeDivisor, skipWaitingTimeOffsetFlag, paused, finished,
                   now>>

\* the wall clock advances by a millisecond
ClockStep ==
    /\ Running
    /\ now < MaxTime
    /\ now' = now + 1
    /\ lastOp' = Op("advance", None, None, {}, NoTick)
    /\ UNCHANGED <<decoderVars, cursorVars, schedVars, raised,
                   previousSlotsShared, viewVars>>

Advance == ClockStep /\ UNCHANGED <<hist, loopVars>>

Next ==
    \/ Tick
    \/ \E flag \in BOOLEAN : CmdPaused(flag) /\ SomeCmd
    \/ CmdSkipWaiting /\ SomeCmd
    \/ \E n \in SkipCounts : CmdSkipEvents(n) /\ SomeCmd
    \/ \E d \in 1..MaxDivisor : CmdSetSpeed(d) /\ SomeCmd
    \/ \E i \in SeekIndexes[fileTotalLines] : CmdSetFilePosition(i) /\ SomeCmd
    \/ Advance

Spec == Init /\ [][Next]_vars

(***************************************************************************)
(* SpecPause: the controller under pause, resume and speed commands, the   *)
(* commands observed by name and payload, the paused time kept in          *)
(* hist.frozen.                                                            *)
(***************************************************************************)
AdvanceFrozen ==
    /\ ClockStep
    /\ hist' = [hist EXCEPT !.frozen =
                    IF paused /\ waitingTargetTmstmp # None THEN @ + 1 ELSE @]
    /\ UNCHANGED loopVars

InitPause ==
    /\ InitDecoder
    /\ InitController
    /\ LoadFile(LogPace)
    /\ now = 0
    /\ lastOp = Op("init", None, None, {}, NoTick)
    /\ hist = InitHist

NextPause ==
    \/ Tick
    \/ \E flag \in BOOLEAN : CmdPaused(flag) /\ Cmd("paused", flag)
    \/ \E d \in 1..MaxDivisor :
          CmdSetSpeed(d) /\ Cmd("set_playback_speed_multiplier", d)
    \/ AdvanceFrozen

SpecPause == InitPause /\ [][NextPause]_vars

(***************************************************************************)
(* SpecSeek: the controller under the commands that move the cursor, the   *)
(* commands observed by name and payload.                                  *)
(***************************************************************************)
InitSeek ==
    /\ InitDecoder
    /\ InitController
    /\ LoadFile(LogTouch)
    /\ now = 0
    /\ lastOp = Op("init", None, None, {}, NoTick)
    /\ hist = InitHist

NextSeek ==
    \/ Tick
    \/ \E n \in SkipCounts : CmdSkipEvents(n) /\ Cmd("skip_events", n)
    \/ \E i \in SeekIndexes[fileTotalLines] :
          CmdSetFilePosition(i) /\ Cmd("set_file_position", i)
    \/ Advance

SpecSeek == InitSeek /\ [][NextSeek]_vars

(***************************************************************************)
(* SpecLoop: Controller.main_loop frame by frame.  pc is "frame" at line   *)
(* 432, "ticks" in the while loop of line 440, "events" from line 455 to   *)
(* line 483.  The clock readings of one stretch of code without a call of  *)
(* the tick between them (lines 432 and 449, or 440 and 449) are taken at   *)
(* one instant.  SpecPlay is SpecLoop with no seek command issued.         *)
(***************************************************************************)
\* (mutant) the batch goes on whatever the clock says
QuotaLeftAlways(currentMs, frameStart, quota) == TRUE

\* line 440: the condition of the batch
QuotaLeft(currentMs, frameStart, quota) == currentMs < frameStart + quota

MainLoopOp(op) == lastOp' = Op(op, None, None, {}, NoTick)

\* lines 432-439, and lines 449-452 when no batch is run
FrameStart ==
    /\ Running
    /\ pc = "frame"
    /\ frameStartTmstmpMs' = now
    /\ IF ~paused
       THEN LET nop == now - lastFrameEndTmstmpMs IN
            /\ lastNopTimeMs' = nop
            /\ eventProcessingQuotaMs' =
                  IF nop > 0 THEN nop ELSE eventProcessingQuotaMs
            /\ IF timeBuffer > 0
               THEN pc' = "ticks" /\ UNCHANGED timeBuffer
               ELSE pc' = "events" /\ timeBuffer' = timeBuffer + nop
       ELSE /\ pc' = "events"
            /\ UNCHANGED <<lastNopTimeMs, eventProcessingQuotaMs, timeBuffer>>
    /\ MainLoopOp("frame_start")
    /\ UNCHANGED <<decoderVars, cursorVars, schedVars, raised,
                   previousSlotsShared, viewVars, lastFrameEndTmstmpMs, now, hist>>

\* lines 440-446: one tick of the batch
LoopTick ==
    /\ pc = "ticks"
    /\ QuotaLeft(now, frameStartTmstmpMs, eventProcessingQuotaMs)
    /\ Tick

\* lines 440 and 449-450: the quota is used up, the batch ends
BatchEnd ==
    /\ Running
    /\ pc = "ticks"
    /\ ~QuotaLeft(now, frameStartTmstmpMs, eventProcessingQuotaMs)
    /\ timeBuffer' = timeBuffer + lastNopTimeMs - (now - frameStartTmstmpMs)
    /\ pc' = "events"
    /\ MainLoopOp("batch_end")
    /\ UNCHANGED <<decoderVars, cursorVars, schedVars, raised,
                   previousSlotsShared, viewVars, frameStartTmstmpMs,
                   lastFrameEndTmstmpMs, lastNopTimeMs, eventProcessingQuotaMs,
                   now, hist>>

\* lines 455-481: one control event is handled
LoopCmd ==
    /\ pc = "events"
    /\ \/ \E flag \in BOOLEAN : CmdPaused(flag) /\ SomeCmd
       \/ CmdSkipWaiting /\ SomeCmd
       \/ \E n \in SkipCounts : CmdSkipEvents(n) /\ SomeCmd
       \/ \E d \in 1..MaxDivisor : CmdSetSpeed(d) /\ SomeCmd

LoopSeek ==
    /\ pc = "events"
    /\ \E i \in SeekIndexes[fileTotalLines] : CmdSetFilePosition(i) /\ SomeCmd

\* lines 483-486: the redraw; its progress fraction divides by the line
\* count.  The fraction passed to __update_display is observed as the pair
\* <<numerator, denominator>>.
Display ==
    /\ Running
    /\ pc = "events"
    /\ IF fileTotalLines = 0
       THEN /\ raised' = ZeroDivisionError
            /\ lastOp' = Op("display", None, None, {}, NoTick)
            /\ UNCHANGED <<pc, lastFrameEndTmstmpMs>>
       ELSE /\ raised' = NoError
            /\ lastOp' = Op("display", <<fileNextLineNum, fileTotalLines>>,
                            None, {}, NoTick)
            /\ lastFrameEndTmstmpMs' = now
            /\ pc' = "frame"
    /\ UNCHANGED <<decoderVars, cursorVars, schedVars, previousSlotsShared,
                   viewVars, frameStartTmstmpMs, lastNopTimeMs, timeBuffer,
                   eventProcessingQuotaMs, now, hist>>

LoopLogs == { <<>>, LogTouch }

InitLoop ==
    /\ InitDecoder
    /\ InitController
    /\ \E f \in LoopLogs : LoadFile(f)
    /\ now = 0
    /\ lastOp = Op("init", None, None, {}, NoTick)
    /\ hist = InitHist

NextPlay ==
    \/ FrameStart
    \/ LoopTick
    \/ BatchEnd
    \/ LoopCmd
    \/ Display
    \/ Advance

NextLoop ==
    \/ NextPlay
    \/ LoopSeek

SpecPlay == InitLoop /\ [][NextPlay]_vars

SpecLoop == InitLoop /\ [][NextLoop]_vars

(***************************************************************************)
(* SpecSlots: the controller of Spec, its commands and its clock, on a log *)
(* that uses two slots.                                                    *)
(***************************************************************************)
InitSlots ==
    /\ InitDecoder
    /\ InitController
    /\ LoadFile(LogSlots)
    /\ now = 0
    /\ lastOp = Op("init", None, None, {}, NoTick)
    /\ hist = InitHist

SpecSlots == InitSlots /\ [][Next]_vars

(***************************************************************************)
(* SpecRender: playback with no control command: ticks and the clock, on   *)
(* each of the logs.                                                       *)
(***************************************************************************)
RenderLogs == {LogPace, LogTouch, LogSlots, LogDraw}

InitRender ==
    /\ InitDecoder
    /\ InitController
    /\ \E f \in RenderLogs : LoadFile(f)
    /\ now = 0
    /\ lastOp = Op("init", None, None, {}, NoTick)
    /\ hist = InitHist

NextRender ==
    \/ Tick
    \/ Advance

SpecRender == InitRender /\ [][NextRender]_vars

(***************************************************************************)
(* SpecDraw: the controller on a log whose commits render every case of    *)
(* the snapshot diff, with seeks, which bring an earlier line under a      *)
(* later table.                                                            *)
(***************************************************************************)
InitDraw ==
    /\ InitDecoder
    /\ InitController
    /\ LoadFile(LogDraw)
    /\ now = 0
    /\ lastOp = Op("init", None, None, {}, NoTick)
    /\ hist = InitHist

\* clicks on the progress bar: its left end, and the points that give the
\* line after the first commit and the line after the second
DrawClicks == {0, 120, 240}

NextDraw ==
    \/ Tick
    \/ \E x \in DrawClicks :
          LET i == SeekLineIndex(fileTotalLines, x) IN
          CmdSetFilePosition(i) /\ Cmd("set_file_position", i)
    \/ Advance

SpecDraw == InitDraw /\ [][NextDraw]_vars

(***************************************************************************)
(* SpecDecoder: Model_EventParser alone, its methods called in any order.  *)
(***************************************************************************)
\* the records the decoder is fed
DecoderInputs ==
    {Abs(10, ABS_MT_SLOT, s) : s \in 0..MaxSlot}
    \cup {Abs(10, ABS_MT_TRACKING_ID, v) : v \in {1, 2, TRACKING_ID_RELEASE}}
    \cup {Abs(10, ABS_MT_POSITION_X, 1)}
    \cup {Abs(10, ABS_MT_POSITION_Y, 2)}
    \cup {Abs(10, 48, 5)}
    \cup {Syn(10), Syn(12)}
    \cup {Line(10, ty, c, 1) : ty \in {EV_KEY, 2}, c \in {BTN_TOUCH, 325}}

DecParse(line) ==
    /\ LET d == ParseEventLine(Decoder, line) IN
       /\ activeSlot' = d.activeSlot
       /\ slots' = d.slots
       /\ slotsReady' = d.slotsReady
       /\ lastOp' = IF d.raised # NoError
                    THEN Op("parse_raised", line, d.raised, d.printed, NoTick)
                    ELSE Op("parse", line, None, d.printed, NoTick)
    /\ UNCHANGED <<cursorVars, schedVars, now, hist, raised, previousSlotsShared,
                   viewVars, loopVars>>

DecGetSlotsReady ==
    /\ LET g == GetSlotsReady(slotsReady) IN
       /\ slotsReady' = g.slotsReady
       /\ lastOp' = Op("get_slots_ready", hist.pending, g.ret, {}, NoTick)
       /\ hist' = [hist EXCEPT !.pending = <<>>]
    /\ UNCHANGED <<activeSlot, slots, cursorVars, schedVars, now, raised,
                   previousSlotsShared, viewVars, loopVars>>

InitDec ==
    /\ InitDecoder
    /\ InitController
    /\ LoadFile(<<>>)
    /\ now = 0
    /\ lastOp = Op("init", None, None, {}, NoTick)
    /\ hist = InitHist

NextDec ==
    \/ \E line \in DecoderInputs : DecParse(line)
    \/ DecGetSlotsReady

SpecDecoder == InitDec /\ [][NextDec]_vars

(***************************************************************************)
(* SpecMalformed: the decoder fed lines it cannot parse among records it   *)
(* can.                                                                    *)
(***************************************************************************)
\* lines parse_event_line cannot parse: a field short, a field too many
\* (the first five a good record), no field at all, a date strptime rejects,
\* a code and a value that are not hex numerals
MalformedInputs ==
    { <<0, 10, EV_ABS, ABS_MT_POSITION_X>>,
      <<0, 10, EV_ABS, ABS_MT_POSITION_X, 1, 1>>,
      <<>>,
      <<Unparseable, 10, EV_ABS, ABS_MT_SLOT, 1>>,
      <<0, 10, EV_ABS, Unparseable, 1>>,
      <<0, 10, EV_SYN, 0, Unparseable>> }

MalformedFeed ==
    MalformedInputs
    \cup {Abs(10, ABS_MT_SLOT, s) : s \in 0..1}
    \cup {Abs(10, ABS_MT_TRACKING_ID, 1),
          Abs(10, ABS_MT_POSITION_X, 1),
          Syn(10)}

NextMalformed ==
    \/ \E line \in MalformedFeed : DecParse(line)
    \/ DecGetSlotsReady

SpecMalformed == InitDec /\ [][NextMalformed]_vars

(***************************************************************************)
(* SpecReady: the decoder's ready signal, with hist.pending kept: commit   *)
(* markers with several timestamps and other records, decoded and read in  *)
(* any order.                                                              *)
(***************************************************************************)
ReadyInputs ==
    {Syn(10), Syn(12), Syn(15),
     Abs(10, ABS_MT_TRACKING_ID, 1),
     Abs(10, ABS_MT_POSITION_X, 1),
     Line(10, EV_KEY, BTN_TOUCH, 1)}

ReadyParse(line) ==
    /\ LET d == ParseEventLine(Decoder, line)
           ev == ParseFields(line)
           p == hist.pending
       IN
       /\ activeSlot' = d.activeSlot
       /\ slots' = d.slots
       /\ slotsReady' = d.slotsReady
       /\ lastOp' = Op("parse", line, None, d.printed, NoTick)
       /\ hist' = IF ev.type = EV_SYN
                  THEN [hist EXCEPT !.pending =
                            IF p = <<>> THEN <<ev.timestamp>>
                            ELSE <<p[Len(p)], ev.timestamp>>]
                  ELSE hist
    /\ UNCHANGED <<cursorVars, schedVars, now, raised, previousSlotsShared,
                   viewVars, loopVars>>

NextReady ==
    \/ \E line \in ReadyInputs : ReadyParse(line)
    \/ DecGetSlotsReady

SpecReady == InitDec /\ [][NextReady]_vars

(***************************************************************************)
(* SpecCursor: the line cursor alone, readLine and gotoLine in any order.  *)
(***************************************************************************)
CurReadLine ==
    /\ LET r == FileReadLine(file, Cursor) IN
       /\ filePos' = r.filePos
       /\ fileNextLineNum' = r.fileNextLineNum
       /\ lastOp' = Op("read_line", None, IF r.eof THEN None ELSE r.line, {}, NoTick)
    /\ UNCHANGED <<decoderVars, file, fileTotalLines, schedVars, now, hist,
                   raised, previousSlotsShared, viewVars, loopVars>>

CurSkipEvents(n) ==
    /\ LET c == FileReadLines(file, Cursor, n) IN
       /\ filePos' = c.filePos
       /\ fileNextLineNum' = c.fileNextLineNum
    /\ lastOp' = Op("skip_events", n, None, {}, NoTick)
    /\ UNCHANGED <<decoderVars, file, fileTotalLines, schedVars, now, hist,
                   raised, previousSlotsShared, viewVars, loopVars>>

CurGotoLine(i) ==
    /\ LET c == FileGotoLine(file, fileTotalLines, Cursor, i) IN
       /\ filePos' = c.filePos
       /\ fileNextLineNum' = c.fileNextLineNum
    /\ lastOp' = Op("goto_line", [lineIndex |-> i, from |-> fileNextLineNum],
                    None, {}, NoTick)
    /\ UNCHANGED <<decoderVars, file, fileTotalLines, schedVars, now, hist,
                   raised, previousSlotsShared, viewVars, loopVars>>

NextCur ==
    \/ CurReadLine
    \/ \E n \in SkipCounts : CurSkipEvents(n)
    \/ \E i \in (0 - MaxSeek)..(fileTotalLines + MaxSeek) : CurGotoLine(i)

\* a log of every length up to the two logs' joint length
CursorLogs == {SubSeq(LogPace \o LogTouch, 1, n) : n \in 0..(Len(LogPace) + Len(LogTouch))}

InitCur ==
    /\ InitDecoder
    /\ InitController
    /\ \E f \in CursorLogs : LoadFile(f)
    /\ now = 0
    /\ lastOp = Op("init", None, None, {}, NoTick)
    /\ hist = InitHist

SpecCursor == InitCur /\ [][NextCur]_vars

(***************************************************************************)
(* Properties.                                                             *)
(***************************************************************************)
AbsVal(n) == IF n < 0 THEN 0 - n ELSE n
SlotOf(sl, s) == IF s \in DOMAIN sl THEN sl[s] ELSE EmptySlot
Last(q) == q[Len(q)]
EndOfStream == <<>>

\* the lines the next k calls of __file_read_line return from cursor c
RECURSIVE LinesAhead(_, _, _)
LinesAhead(f, c, k) ==
    IF k = 0 THEN <<>>
    ELSE LET r == FileReadLine(f, c) IN
         <<IF r.eof THEN EndOfStream ELSE r.line>>
           \o LinesAhead(f, [filePos |-> r.filePos,
                             fileNextLineNum |-> r.fileNextLineNum], k - 1)

\* every slot but s is as it was, and no slot but s was created
OtherSlotsKept(s) ==
    /\ DOMAIN slots' \subseteq (DOMAIN slots) \cup {s}
    /\ \A t \in (DOMAIN slots) \ {s} : t \in DOMAIN slots' /\ slots'[t] = slots[t]

\* C1: after gotoLine(i), whatever was called before, nextLineIndex is i
\* clamped to [0, totalLines], and the next reads return the lines originally
\* at that index and after it, then end-of-stream: what is read after
\* gotoLine(i) depends on i alone, so seeking there again reproduces it.
C1_GotoLineSeeks ==
    lastOp.op = "goto_line" =>
        LET i == lastOp.arg.lineIndex
            c == IF i < 0 THEN 0 ELSE IF i > fileTotalLines THEN fileTotalLines ELSE i
        IN  /\ fileNextLineNum = c
            /\ \A k \in 0..(fileTotalLines + 1) :
                 LinesAhead(file, Cursor, k) =
                   [j \in 1..k |-> IF c + j <= Len(file) THEN file[c + j]
                                   ELSE EndOfStream]

\* a backward seek into the middle of a log, after some lines were read
C1_Witness ==
    /\ lastOp.op = "goto_line"
    /\ lastOp.arg.lineIndex > 0
    /\ lastOp.arg.from > lastOp.arg.lineIndex
    /\ fileNextLineNum = lastOp.arg.lineIndex
    /\ fileNextLineNum < fileTotalLines

\* the line a tick reads, when the step is a tick that read one
LineRead == file[fileNextLineNum + 1]

\* C2: a tick at time now that decodes a commit marker with timestamp ts sets
\* previousCommitTimestamp to ts; if previousCommitTimestamp was set it enters
\* a wait with waitingStart = now and waitingTarget = now + round((ts -
\* previous) / divisor) + waitingTimeOffset, the window being the recorded
\* delta divided by the divisor to within half a millisecond; if it was not
\* set, no wait is entered and the slot table is snapshotted in that tick.
C2_CommitPacing ==
    [][ (lastOp'.op = "tick" /\ lastOp'.tick.commit) =>
          LET previous == IF skipWaitingFlag THEN None ELSE previousSynEventTmstmp
              ts == ParseFields(LineRead).timestamp
              d == waitingTimeDivisor
              off == lastOp'.tick.offset
          IN  /\ previousSynEventTmstmp' = ts
              /\ IF previous # None
                 THEN /\ waitingStartTmstmp' = now
                      /\ waitingTargetTmstmp' = now + RoundDiv(ts - previous, d) + off
                      /\ 2 * AbsVal(d * (waitingTargetTmstmp' - now - off) - (ts - previous)) <= d
                 ELSE /\ waitingTargetTmstmp' = None
                      /\ previousSlots' = slots'
      ]_vars

\* a commit read in the tick that ended a wait late, at half speed
C2_Witness ==
    /\ lastOp.op = "tick"
    /\ lastOp.tick.commit
    /\ waitingTargetTmstmp # None
    /\ waitingTimeDivisor = 2
    /\ lastOp.tick.offset < 0

\* C3: a tick while a wait is pending, its deadline not reached and the skip
\* flag clear returns the progress fraction and changes neither the cursor,
\* nor the decoder, nor previousSlots, previousCommitTimestamp, waitingStart
\* or waitingTarget.
C3_WaitingTickReadsNothing ==
    [][ (/\ lastOp'.op = "tick"
         /\ waitingTargetTmstmp # None
         /\ now < waitingTargetTmstmp
         /\ ~skipWaitingFlag) =>
          /\ lastOp'.ret = "wait"
          /\ lastOp'.tick.num = now - waitingStartTmstmp
          /\ lastOp'.tick.den = waitingTargetTmstmp - waitingStartTmstmp
          /\ UNCHANGED <<filePos, fileNextLineNum, activeSlot, slots, slotsReady,
                         previousSlots, previousSynEventTmstmp,
                         waitingStartTmstmp, waitingTargetTmstmp>>
      ]_vars

\* a tick returned from the waiting branch, part of the window elapsed
C3_Witness ==
    /\ lastOp.op = "tick"
    /\ lastOp.ret = "wait"
    /\ lastOp.tick.num > 0
    /\ lastOp.tick.num < lastOp.tick.den
    /\ fileNextLineNum < fileTotalLines

\* C4: when a wait window ended with overshoot o (time-offset flag clear), the
\* next wait window entered has waitingTarget = now' + round(delta / divisor)
\* + o, however many lines without a commit were decoded in between.
C4_OvershootCarried ==
    [][ (/\ lastOp'.op = "tick"
         /\ lastOp'.tick.commit
         /\ waitingTargetTmstmp' # None
         /\ lastOp'.tick.owed # <<>>) =>
          waitingTargetTmstmp' =
              now + RoundDiv(previousSynEventTmstmp' - previousSynEventTmstmp,
                             waitingTimeDivisor)
                  + lastOp'.tick.owed[1]
      ]_vars

\* C5: an ABS_MT_TRACKING_ID record with value v on active slot s leaves the
\* slot as it is when v is its tracking id; otherwise x, y and tracking_id
\* are reset to absent and tracking_id becomes v unless v is the release
\* sentinel.  No other slot, nor the active slot pointer, nor the ready
\* signal changes.
C5_TrackingIdRecord ==
    [][ (/\ lastOp'.op = "parse"
         /\ ParseFields(lastOp'.arg).type = EV_ABS
         /\ ParseFields(lastOp'.arg).code = ABS_MT_TRACKING_ID) =>
          LET v == ParseFields(lastOp'.arg).value
              s == activeSlot
          IN  /\ s \in DOMAIN slots'
              /\ IF s \in DOMAIN slots /\ v = slots[s].tracking_id
                 THEN slots'[s] = slots[s]
                 ELSE slots'[s] = [tracking_id |-> IF v = TRACKING_ID_RELEASE
                                                   THEN None ELSE v,
                                   x |-> None, y |-> None]
              /\ OtherSlotsKept(s)
              /\ UNCHANGED <<activeSlot, slotsReady>>
      ]_vars

\* a release was decoded on slot 1, which is all-absent, while slot 0 still
\* holds a contact with both coordinates
C5_Witness ==
    /\ lastOp.op = "parse"
    /\ lastOp.arg = Abs(10, ABS_MT_TRACKING_ID, TRACKING_ID_RELEASE)
    /\ activeSlot = 1
    /\ 1 \in DOMAIN slots /\ slots[1] = EmptySlot
    /\ 0 \in DOMAIN slots /\ slots[0] = [tracking_id |-> 2, x |-> 1, y |-> 2]

\* C6: ABS_MT_SLOT changes the active slot pointer and nothing else, and no
\* other record or call changes the pointer, which starts at 0;
\* ABS_MT_POSITION_X / _Y set the x / y field of the active slot (created
\* all-absent if missing) and change no other field, slot or the ready signal;
\* a commit marker changes the ready signal alone.
C6_RecordFrames ==
    [][ /\ (lastOp.op = "init" => activeSlot = 0)
        /\ (lastOp'.op = "get_slots_ready" => UNCHANGED <<activeSlot, slots>>)
        /\ (lastOp'.op = "parse" =>
              LET ev == ParseFields(lastOp'.arg)
                  s == activeSlot
              IN  /\ (ev.type = EV_ABS /\ ev.code = ABS_MT_SLOT) =>
                        /\ activeSlot' = ev.value
                        /\ UNCHANGED <<slots, slotsReady>>
                  /\ ~(ev.type = EV_ABS /\ ev.code = ABS_MT_SLOT) =>
                        UNCHANGED activeSlot
                  /\ (ev.type = EV_ABS /\ ev.code = ABS_MT_POSITION_X) =>
                        /\ s \in DOMAIN slots'
                        /\ slots'[s] = [SlotOf(slots, s) EXCEPT !.x = ev.value]
                        /\ OtherSlotsKept(s)
                        /\ UNCHANGED slotsReady
                  /\ (ev.type = EV_ABS /\ ev.code = ABS_MT_POSITION_Y) =>
                        /\ s \in DOMAIN slots'
                        /\ slots'[s] = [SlotOf(slots, s) EXCEPT !.y = ev.value]
                        /\ OtherSlotsKept(s)
                        /\ UNCHANGED slotsReady
                  /\ (ev.type = EV_SYN) =>
                        /\ slotsReady' = ev.timestamp
                        /\ UNCHANGED <<activeSlot, slots>>)
      ]_vars

\* an x coordinate was decoded on slot 1, creating it, slot 0 holding a contact
C6_Witness ==
    /\ lastOp.op = "parse"
    /\ lastOp.arg = Abs(10, ABS_MT_POSITION_X, 1)
    /\ activeSlot = 1
    /\ 1 \in DOMAIN slots /\ slots[1] = [tracking_id |-> None, x |-> 1, y |-> None]
    /\ 0 \in DOMAIN slots /\ slots[0].tracking_id = 1

\* C7: a slot index present in the decoder's table stays present.
C7_SlotTableGrows ==
    [][ (DOMAIN slots) \subseteq (DOMAIN slots') ]_vars

\* a release was decoded and every slot index is in the table, all-absent
C7_Witness ==
    /\ lastOp.op = "parse"
    /\ lastOp.arg = Abs(10, ABS_MT_TRACKING_ID, TRACKING_ID_RELEASE)
    /\ DOMAIN slots = 0..MaxSlot
    /\ \A s \in DOMAIN slots : slots[s] = EmptySlot

\* C8: get_slots_ready returns the timestamp of the most recent commit marker
\* decoded since it last returned (the later one when two were decoded), and
\* absent when there was none; the ready signal is absent afterwards.
C8_ReadyConsumedOnce ==
    lastOp.op = "get_slots_ready" =>
        /\ lastOp.ret = IF lastOp.arg = <<>> THEN None ELSE Last(lastOp.arg)
        /\ slotsReady = None

\* two commits with different timestamps were decoded, then the signal read
C8_Witness ==
    /\ lastOp.op = "get_slots_ready"
    /\ Len(lastOp.arg) = 2
    /\ lastOp.arg[1] # lastOp.arg[2]
    /\ lastOp.ret = lastOp.arg[2]

\* C9: a record of a type other than EV_ABS and SYN_REPORT prints the
\* 'unhandled event' warning unless it is (EV_KEY, BTN_TOUCH); an EV_ABS record
\* of another code prints a warning; the decoder's state is unchanged.
C9_UnhandledWarned ==
    [][ lastOp'.op = "parse" =>
          LET ev == ParseFields(lastOp'.arg) IN
          /\ (ev.type # EV_ABS /\ ev.type # EV_SYN) =>
                /\ ("unhandled" \in lastOp'.printed)
                     <=> ~(ev.type = EV_KEY /\ ev.code = BTN_TOUCH)
                /\ UNCHANGED decoderVars
          /\ (/\ ev.type = EV_ABS
              /\ ev.code \notin {ABS_MT_SLOT, ABS_MT_TRACKING_ID,
                                 ABS_MT_POSITION_X, ABS_MT_POSITION_Y}) =>
                /\ "unhandled_abs" \in lastOp'.printed
                /\ UNCHANGED decoderVars
      ]_vars

\* C10: a tick with the skip flag set clears it, sets waitingStart to now,
\* forgets the previous commit and does not return from the waiting branch: it
\* reads a line (or meets the end of the log) and leaves no wait pending.  The
\* first commit decoded after that enters no wait; the next one does.
C10_SkipCollapsesWait ==
    [][ /\ (lastOp'.op = "tick" /\ skipWaitingFlag) =>
              /\ ~skipWaitingFlag'
              /\ waitingStartTmstmp' = now
              /\ waitingTargetTmstmp' = None
              /\ lastOp'.ret # "wait"
              /\ IF fileNextLineNum < fileTotalLines
                 THEN lastOp'.ret = "line" /\ fileNextLineNum' = fileNextLineNum + 1
                 ELSE lastOp'.ret = "eof"
              /\ previousSynEventTmstmp' =
                   IF lastOp'.tick.commit THEN ParseFields(LineRead).timestamp
                   ELSE None
        /\ (lastOp'.op = "tick" /\ lastOp'.tick.commit) =>
              ((waitingTargetTmstmp' = None) <=> (hist'.commits = 1))
      ]_vars

\* a first commit after a collapse: decoded at a later time, no wait entered
C10_Witness ==
    /\ lastOp.op = "tick"
    /\ lastOp.tick.commit
    /\ hist.commits = 1
    /\ waitingTargetTmstmp = None
    /\ waitingStartTmstmp > 0
    /\ previousSynEventTmstmp # None

\* C11: the pause command, pausing or resuming, sets paused to its payload
\* and sets the time-offset flag; a tick with the flag set that returns from
\* the waiting branch leaves it set, and the first tick that gets past the
\* wait check clears it and reads its line with waitingTimeOffset = 0, so a
\* wait window entered in that tick has waitingTarget = now + round(delta /
\* divisor).
C11_PauseZeroesOffset ==
    [][ /\ (lastOp'.op = "paused" =>
              /\ paused' = lastOp'.arg
              /\ skipWaitingTimeOffsetFlag')
        /\ (lastOp'.op = "tick" /\ skipWaitingTimeOffsetFlag) =>
              IF lastOp'.ret = "wait"
              THEN skipWaitingTimeOffsetFlag'
              ELSE /\ ~skipWaitingTimeOffsetFlag'
                   /\ lastOp'.tick.offset = 0
                   /\ (lastOp'.tick.commit /\ waitingTargetTmstmp' # None) =>
                         waitingTargetTmstmp' =
                            now + RoundDiv(ParseFields(LineRead).timestamp
                                             - previousSynEventTmstmp,
                                           waitingTimeDivisor)
      ]_vars

\* a wait ended late in the tick that followed a pause and a resume, and the
\* commit read in that tick opened a window with nothing taken off
C11_Witness ==
    /\ lastOp.op = "tick"
    /\ lastOp.tick.commit
    /\ waitingTargetTmstmp # None
    /\ lastOp.tick.raw < 0
    /\ lastOp.tick.offset = 0

\* C12: the time that passes while paused does not count towards a pending
\* wait: a wait window ends by expiry only when the clock, less the time it
\* advanced while playback was paused with the window pending, has reached
\* the deadline.
C12_PausedTimeNotElapsed ==
    [][ (/\ lastOp'.op = "tick"
         /\ waitingTargetTmstmp # None
         /\ ~skipWaitingFlag
         /\ lastOp'.ret # "wait") =>
          now - hist.frozen >= waitingTargetTmstmp
      ]_vars

\* C13: skipEvents(n) with at least n lines left advances nextLineIndex by
\* exactly n, with fewer left it stops at totalLines and raises nothing; the
\* next line read is the one at the new index; it sets the skip flag and
\* leaves the slot table, the active slot pointer and the ready signal as
\* they are.
C13_SkipEventsDiscards ==
    [][ lastOp'.op = "skip_events" =>
          LET n == lastOp'.arg
              left == fileTotalLines - fileNextLineNum
          IN  /\ fileNextLineNum' = fileNextLineNum + (IF left >= n THEN n ELSE left)
              /\ LinesAhead(file, Cursor', 1) =
                    <<IF fileNextLineNum' < fileTotalLines
                      THEN file[fileNextLineNum' + 1] ELSE EndOfStream>>
              /\ skipWaitingFlag'
              /\ raised' = NoError
              /\ UNCHANGED decoderVars
      ]_vars

\* one line skipped in mid-log with a contact decoded, lines left to read
C13_Witness ==
    /\ lastOp.op = "skip_events"
    /\ lastOp.arg = 1
    /\ fileNextLineNum > 1
    /\ fileNextLineNum < fileTotalLines
    /\ 0 \in DOMAIN slots /\ slots[0].tracking_id # None
    /\ skipWaitingFlag

\* C14: a seek sets nextLineIndex to the index asked for, clamped to [0,
\* totalLines], clears the persistent trails and sets the skip flag; and the
\* persistent trails stay cleared until a commit read from the new position
\* is rendered: the tick that follows the seek leaves them cleared unless the
\* line it reads is a commit.
C14_SeekClearsTrails ==
    [][ /\ (lastOp'.op = "set_file_position" =>
              /\ fileNextLineNum' = ClampLine(lastOp'.arg, fileTotalLines)
              /\ persistentTrails' = <<>>
              /\ skipWaitingFlag')
        /\ (lastOp.op = "set_file_position" /\ lastOp'.op = "tick"
               /\ ~lastOp'.tick.commit) =>
              persistentTrails' = <<>>
      ]_vars

\* the line does not split into five fields, or one of its fields does not
\* parse
Malformed(line) == Len(line) # 5 \/ \E i \in 1..Len(line) : line[i] = Unparseable

\* C15: parse_event_line on a line that does not split into exactly five
\* fields, or whose date, time or hex fields do not parse, raises an error to
\* its caller and leaves the slot table, the active slot pointer and the
\* ready signal exactly as they were.
C15_MalformedLineRaises ==
    [][ (lastOp'.op \in {"parse", "parse_raised"} /\ Malformed(lastOp'.arg)) =>
          /\ lastOp'.op = "parse_raised"
          /\ lastOp'.ret # NoError
          /\ UNCHANGED decoderVars
      ]_vars

\* a line of six fields, the first five a good record, was refused with a
\* contact decoded and a commit unread
C15_Witness ==
    /\ lastOp.op = "parse_raised"
    /\ Len(lastOp.arg) = 6
    /\ 0 \in DOMAIN slots /\ slots[0].tracking_id # None /\ slots[0].x = None
    /\ slotsReady # None

\* C16 (what it says of every step): with a log of well-formed lines and no
\* seek issued, the main loop never ends by raising an error, whatever the
\* number of lines, zero included; each tick reads at most one line, the
\* line at nextLineIndex, which never moves back; and a tick reports the end
\* of the log only with nextLineIndex = totalLines, the loop then returning.
C16_PlaysToCleanEnd ==
    [][ /\ raised' = NoError
        /\ fileNextLineNum' >= fileNextLineNum
        /\ filePos' = fileNextLineNum'
        /\ (lastOp'.op = "tick" =>
              /\ fileNextLineNum' - fileNextLineNum \in {0, 1}
              /\ (lastOp'.ret = "eof") <=> finished'
              /\ lastOp'.ret = "eof" => fileNextLineNum = fileTotalLines)
      ]_vars

\* the main loop did not raise, or the log has no line
C16_RaisesOnlyOnEmptyLog == raised = NoError \/ fileTotalLines = 0

\* C17: a tick of the batch runs only while the clock is before frameStart +
\* quota, whatever the ticks before it returned; once the clock has reached
\* it the loop does nothing but end the batch and pass to the control events
\* of the same iteration, from which it passes only to the redraw that ends
\* the iteration.
C17_BatchEndsAtQuota ==
    [][ /\ (lastOp'.op = "tick" =>
              /\ pc = "ticks" /\ pc' = "ticks"
              /\ now < frameStartTmstmpMs + eventProcessingQuotaMs)
        /\ (/\ pc = "ticks"
            /\ now >= frameStartTmstmpMs + eventProcessingQuotaMs
            /\ lastOp'.op # "advance") =>
              /\ lastOp'.op = "batch_end"
              /\ pc' = "events"
              /\ UNCHANGED <<decoderVars, cursorVars, schedVars>>
        /\ (pc = "events" /\ pc' # "events") =>
              /\ lastOp'.op = "display"
              /\ pc' = "frame"
              /\ lastFrameEndTmstmpMs' = now
      ]_vars

\* a batch in which lines were read without a wait was ended by the clock
\* reaching frameStart + quota, lines left to read
C17_Witness ==
    /\ lastOp.op = "batch_end"
    /\ pc = "events"
    /\ now = frameStartTmstmpMs + eventProcessingQuotaMs
    /\ fileNextLineNum >= 3
    /\ fileNextLineNum < fileTotalLines
    /\ waitingTargetTmstmp = None

\* C18: previousSlots is a copy of the decoder's table taken when a diff is
\* rendered and an object of its own: a tick that renders leaves in it the
\* table as it was at its last render (before the line it reads when the
\* render is that of an expired wait, after it when it is that of a first
\* commit); every other step, and what the decoder writes after the render,
\* leaves it as it is.
C18_PreviousSlotsIsACopy ==
    [][ /\ ~previousSlotsShared'
        /\ LET tick == lastOp'.op = "tick" /\ lastOp'.ret # "wait"
               expired == skipWaitingFlag \/ waitingTargetTmstmp # None
               firstCommit == lastOp'.tick.commit /\ waitingTargetTmstmp' = None
           IN  previousSlots' =
                  IF tick /\ firstCommit THEN slots'
                  ELSE IF tick /\ expired THEN slots
                  ELSE previousSlots
      ]_vars

\* a tick rendered the table with slot 0 in it and then decoded the line
\* that creates slot 1: the copy does not have slot 1
C18_Witness ==
    /\ lastOp.op = "tick"
    /\ lastOp.ret = "line"
    /\ DOMAIN previousSlots = {0}
    /\ DOMAIN slots = {0, 1}
    /\ slots[0] = previousSlots[0]

\* a slot is active in a table: it is there with tracking id, x and y set
ActiveIn(table, s) ==
    /\ s \in DOMAIN table
    /\ table[s].tracking_id # None
    /\ table[s].x # None
    /\ table[s].y # None

\* the position of an active slot, in the coordinates of the trail surface
PositionIn(table, s) == ScaleCoords(table[s].x, table[s].y)

\* the calls recorded for slot id s in one diff are those of its case
DiffCase(dr, s) ==
    LET cur == ActiveIn(dr.slots, s)
        prev == ActiveIn(dr.previous, s)
        add == AddPersistentTrail(<<>>, PositionIn(dr.slots, s), s)
        fade == FadePersistentTrail(s, dr.timestamp)
    IN  dr.calls[s] =
          IF cur /\ prev
          THEN IF dr.slots[s].tracking_id = dr.previous[s].tracking_id
               THEN <<AddTrail(PositionIn(dr.previous, s),
                               PositionIn(dr.slots, s), dr.timestamp), add>>
               ELSE <<fade, add>>
          ELSE IF cur THEN <<add>>
          ELSE IF prev THEN <<fade>>
          ELSE <<>>

\* C20: whatever ticks and commands were interleaved, backward seeks
\* included, previousSlots has no more entries than the decoder's table, and
\* no tick was ended by the assertion of __draw_slots.
C20_DrawAssertionHolds ==
    /\ Cardinality(DOMAIN previousSlots) <= Cardinality(DOMAIN slots)
    /\ raised # AssertionError

\* a tick reads the first line again, after a seek back from a position
\* where both slots had been rendered, and has rendered again
C20_Witness ==
    /\ lastOp.op = "tick"
    /\ lastOp.ret = "line"
    /\ fileNextLineNum = 1
    /\ DOMAIN previousSlots = {0, 1}
    /\ DOMAIN slots = {0, 1}
    /\ raised = NoError

\* C21: after load the line cursor stays within 0..totalLines under ticks,
\* skip_events and seeks, and every frame's redraw is given a progress
\* fraction nextLineIndex / totalLines that is defined and within [0, 1],
\* whatever log was loaded.
C21_ProgressFractionDefined ==
    /\ 0 <= fileNextLineNum
    /\ fileNextLineNum <= fileTotalLines
    /\ raised # ZeroDivisionError
    /\ (lastOp.op = "display" /\ raised = NoError) =>
          /\ lastOp.arg[2] > 0
          /\ 0 <= lastOp.arg[1]
          /\ lastOp.arg[1] <= lastOp.arg[2]

\* the part of that claim the code keeps: the cursor is within 0..totalLines,
\* and the division of line 483 fails for a log without lines alone, every
\* fraction that is computed being within [0, 1]
C21_DefinedForLogsWithLines ==
    /\ 0 <= fileNextLineNum
    /\ fileNextLineNum <= fileTotalLines
    /\ raised = ZeroDivisionError => fileTotalLines = 0
    /\ (lastOp.op = "display" /\ raised = NoError) =>
          /\ lastOp.arg[2] > 0
          /\ 0 <= lastOp.arg[1]
          /\ lastOp.arg[1] <= lastOp.arg[2]

\* C22: with the decoder driven by the scheduler's tick alone, the ready
\* signal is absent before and after every tick, whatever control commands
\* are interleaved: no commit marker is decoded while an earlier one is
\* unconsumed, and the unread-commit warning is never printed.
C22_ReadyAbsentAroundTicks ==
    /\ slotsReady = None
    /\ "unread_syn" \notin lastOp.printed

\* a tick decoded a commit marker, not the first one, and consumed it
C22_Witness ==
    /\ lastOp.op = "tick"
    /\ lastOp.tick.commit
    /\ hist.commits = 2
    /\ waitingTargetTmstmp # None
    /\ slotsReady = None

\* C23: the clock never going back, a tick that returns from the waiting
\* branch does so with waitingStart <= now < waitingTarget: the fraction it
\* returns has a denominator above 0 and lies in [0, 1), and the branch is
\* never taken with a window of width zero.
C23_WaitFractionInUnitInterval ==
    (lastOp.op = "tick" /\ lastOp.ret = "wait") =>
        /\ waitingTargetTmstmp # None
        /\ waitingStartTmstmp <= now
        /\ now < waitingTargetTmstmp
        /\ waitingTargetTmstmp # waitingStartTmstmp
        /\ lastOp.tick.den > 0
        /\ 0 <= lastOp.tick.num
        /\ lastOp.tick.num < lastOp.tick.den

\* a tick returned from the waiting branch in the millisecond its window was
\* opened in: the fraction is 0 over a width of 2 or more
C23_Witness ==
    /\ lastOp.op = "tick"
    /\ lastOp.ret = "wait"
    /\ waitingStartTmstmp = now
    /\ lastOp.tick.num = 0
    /\ lastOp.tick.den >= 2

\* the number of the last commit marker among the first n lines of f, 0 when
\* there is none
LastCommit(f, n) ==
    LET commits == {k \in 1..n : ParseFields(f[k]).type = EV_SYN} IN
    IF commits = {} THEN 0 ELSE CHOOSE k \in commits : \A j \in commits : j <= k

\* the decoder after the first k lines of f, decoded from its initial state
RECURSIVE DecoderAfter(_, _)
DecoderAfter(f, k) ==
    IF k = 0
    THEN [activeSlot |-> 0, slots |-> <<>>, slotsReady |-> None,
          printed |-> {}, raised |-> NoError]
    ELSE ParseEventLine(DecoderAfter(f, k - 1), f[k])

TableAfter(f, k) == DecoderAfter(f, k).slots

\* the tables a tick handed to __draw_slots, in order
Rendered(draws) == [i \in 1..Len(draws) |-> draws[i].slots]

\* C24: no control command intervening, a window is pending exactly from the
\* tick that decodes a commit marker other than the first to the tick in
\* which it expires, no line is decoded in between, and the expiring tick
\* renders, before it reads on, the decoder's table as it stood right after
\* that commit marker; the first commit marker is rendered by the tick that
\* decodes it; nothing else is rendered, so every commit marker decoded has
\* its table rendered once, in commit order; and end-of-log is reported
\* with no window pending, the last commit's table rendered before by the
\* reporting tick.
C24_EachCommitRenderedOnce ==
    [][ LET wasPending == waitingTargetTmstmp # None
            pending == waitingTargetTmstmp' # None
            n0 == fileNextLineNum
            n == fileNextLineNum'
            readCommit == n = n0 + 1 /\ ParseFields(file[n]).type = EV_SYN
            firstCommit == readCommit /\ LastCommit(file, n0) = 0
            expiry == lastOp'.op = "tick" /\ wasPending /\ lastOp'.ret # "wait"
        IN  /\ wasPending => /\ LastCommit(file, n0) = n0
                              /\ slots = TableAfter(file, n0)
            /\ Rendered(lastOp'.tick.draws) =
                  (IF expiry THEN <<TableAfter(file, n0)>> ELSE <<>>)
                  \o (IF firstCommit THEN <<TableAfter(file, n)>> ELSE <<>>)
            /\ pending <=> ((readCommit /\ ~firstCommit) \/ (wasPending /\ ~expiry))
            /\ finished' => ~pending
      ]_vars

\* the log with two slots was played to its end: the tick that reports
\* end-of-log first rendered the table of the last commit marker, slot 1
\* in it
C24_Witness ==
    /\ finished
    /\ lastOp.op = "tick"
    /\ lastOp.ret = "eof"
    /\ file = LogSlots
    /\ Len(lastOp.tick.draws) = 1
    /\ lastOp.tick.draws[1].slots = slots
    /\ DOMAIN lastOp.tick.draws[1].previous = {0}
    /\ DOMAIN slots = {0, 1}

\* C19: in every snapshot diff a slot counts as active only with its
\* tracking id, x and y all set, and for each slot id of the current table
\* the calls made are: add_trail from the previous to the current position,
\* then add_persistent_trail, when the slot is active in both tables under one
\* tracking id; fade_persistent_trail, then add_persistent_trail, when it is
\* active in both under two tracking ids; add_persistent_trail alone when it
\* is active in the current table only; fade_persistent_trail alone when it
\* is active in the previous table only; none when it is active in neither.
C19_DiffCasesPerSlot ==
    \A i \in 1..Len(lastOp.tick.draws) :
        LET dr == lastOp.tick.draws[i] IN
        /\ DOMAIN dr.calls = DOMAIN dr.slots
        /\ \A s \in DOMAIN dr.slots : DiffCase(dr, s)

\* a diff was rendered with slot 1 holding a tracking id and no position:
\* nothing was emitted for it, and slot 0, active in both tables under one
\* tracking id, got its trail from the previous to the current position
C19_Witness ==
    /\ lastOp.op = "tick"
    /\ \E i \in 1..Len(lastOp.tick.draws) :
          LET dr == lastOp.tick.draws[i] IN
          /\ DOMAIN dr.slots = {0, 1}
          /\ dr.slots[1].tracking_id # None
          /\ dr.slots[1].x = None
          /\ dr.calls[1] = <<>>
          /\ ActiveIn(dr.slots, 0)
          /\ ActiveIn(dr.previous, 0)
          /\ Len(dr.calls[0]) = 2
          /\ dr.calls[0][1].op = "add_trail"
          /\ dr.calls[0][1].start # dr.calls[0][1].end
====
